---- MODULE Spec2Model ----
(***************************************************************************)
(* A model of pyeda/boolfunc.py: the generic algorithms of the abstract    *)
(* Function class (iter_cofactors, cofactors, vrestrict, smoothing,        *)
(* consensus, derivative) and the VectorFunction container (indexing,      *)
(* slicing, assignment, ext, append, restrict, to_uint, to_int).           *)
(*                                                                         *)
(* Python values are encoded as follows.                                   *)
(*   - a vector element is a record: Bit(b) is the Python int b, Fn(tt) is *)
(*     a Function object whose truth table is tt;                          *)
(*   - a truth table over the variables 0..NumVars-1 is a sequence of      *)
(*     length 2^NumVars: entry p+1 is the value at the point that gives    *)
(*     variable i the value bit i of p;                                    *)
(*   - a dict from variables to 0/1 is a TLA+ function on a set of         *)
(*     variables;                                                          *)
(*   - a slice bound is <<>> for None and <<n>> for the integer n;         *)
(*   - an exception is named by the variable err ("none": normal return).  *)
(***************************************************************************)
EXTENDS Integers, Sequences, FiniteSets

VARIABLES v, pre, op, arg, err, ret, f, gen, calls, fret

vars == <<v, pre, op, arg, err, ret, f, gen, calls, fret>>

(* ------------------------------ bounds --------------------------------- *)

MaxLen == 3

MaxStart == 1

MaxIdx == 4

MaxSliceLen == 2

MaxSliceIdx == 3

MaxExt == 2

MaxVs == 2

MaxKeyLen == 3

NumVars == 2

(* ----------------------------- constants ------------------------------- *)

UNSIGNED == 0

TWOS_COMPLEMENT == 1

NoError == "none"

RangeError == "IndexError: list index out of range"

ZeroSizedSlice == "IndexError: zero-sized slice"

ConversionError == "ValueError: cannot convert to uint"

AttributeError == "AttributeError"

AssertionError == "AssertionError"

NotImplementedError == "NotImplementedError"

(* ------------------------- values and inputs --------------------------- *)

Vars == 0 .. (NumVars - 1)

Points == 0 .. (2 ^ NumVars - 1)

Bit(b) == [int |-> TRUE, bit |-> b, tt |-> <<>>]

Fn(tt) == [int |-> FALSE, bit |-> 0, tt |-> tt]

bit_on(n, i) == (n \div (2 ^ i)) % 2

VarTable(x) == [p \in 1 .. (2 ^ NumVars) |-> bit_on(p - 1, x)]

Elems == {Bit(0), Bit(1), Fn(VarTable(0))}

Mappings == UNION {[D -> {0, 1}] : D \in SUBSET Vars}

Starts == (0 - MaxStart) .. MaxStart

Idx == (0 - MaxIdx) .. MaxIdx

Bounds == {<<>>} \cup {<<i>> : i \in (0 - MaxSliceIdx) .. MaxSliceIdx}

SeqsUpTo(S, n) == UNION {[1 .. k -> S] : k \in 0 .. n}

Vec(fs, start, bnr) == [fs |-> fs, start |-> start, bnr |-> bnr]

NoVec == Vec(<<>>, 0, UNSIGNED)

NoRet == [pos |-> 0, elem |-> Bit(0), vec |-> NoVec, num |-> 0]

NoArg == [i |-> 0, lo |-> <<>>, hi |-> <<>>, e |-> Bit(0), m |-> <<>>,
          none |-> FALSE, vs |-> <<>>, vecs |-> <<>>]

NoGen == [vs |-> <<>>, n |-> 0, live |-> FALSE]

(* -------------------------- Python list access ------------------------- *)

\* list.__getitem__(int) / list.__setitem__(int, x): the 1-based position
\* that index idx selects in a list of length n, 0 when Python raises
\* IndexError.
ListPos(n, idx) ==
    IF 0 <= idx /\ idx < n THEN idx + 1
    ELSE IF idx < 0 /\ 0 - n <= idx THEN n + idx + 1
    ELSE 0

\* slice.indices: a slice bound clamped to a list of length n.
ClampBound(n, x) ==
    IF x < 0 THEN (IF x + n < 0 THEN 0 ELSE x + n)
    ELSE IF x > n THEN n ELSE x

\* list.__getitem__(slice(a, b))
ListSlice(fs, a, b) == SubSeq(fs, ClampBound(Len(fs), a) + 1, ClampBound(Len(fs), b))

\* list.__setitem__(slice(a, b), val)
ListSetSlice(fs, a, b, val) ==
    LET ca == ClampBound(Len(fs), a)
        cb == ClampBound(Len(fs), b)
        hi == IF cb < ca THEN ca ELSE cb
    IN  SubSeq(fs, 1, ca) \o val \o SubSeq(fs, hi + 1, Len(fs))

(* ----------------------------- VectorFunction -------------------------- *)

\* VectorFunction._sl
sl(vec) == [start |-> vec.start, stop |-> Len(vec.fs) + vec.start]

\* VectorFunction._norm_idx
norm_idx(vec, i) ==
    IF i >= 0
    THEN IF i < vec.start
         THEN [err |-> RangeError, idx |-> 0]
         ELSE [err |-> NoError, idx |-> i - vec.start]
    ELSE [err |-> NoError, idx |-> i + vec.start]

\* One bound of VectorFunction._norm_slice: the loop body over "start"/"stop".
slice_limit(vec, b, dflt) ==
    IF b # <<>>
    THEN (IF b[1] >= 0 THEN b[1] ELSE sl(vec).stop + b[1])
    ELSE dflt

\* VectorFunction._norm_slice
norm_slice(vec, lo, hi) ==
    LET lstart == slice_limit(vec, lo, sl(vec).start)
        lstop  == slice_limit(vec, hi, sl(vec).stop)
    IN  IF lstart < sl(vec).start \/ lstop > sl(vec).stop
        THEN [err |-> RangeError, start |-> 0, stop |-> 0]
        ELSE IF lstart >= lstop
        THEN [err |-> ZeroSizedSlice, start |-> 0, stop |-> 0]
        ELSE [err |-> NoError, start |-> lstart - vec.start,
              stop |-> lstop - vec.start]

\* VectorFunction.__getitem__ with an int: the position of self.fs it reads.
getitem_idx(vec, i) ==
    LET n == norm_idx(vec, i)
    IN  IF n.err # NoError THEN [err |-> n.err, pos |-> 0]
        ELSE IF ListPos(Len(vec.fs), n.idx) = 0
        THEN [err |-> RangeError, pos |-> 0]
        ELSE [err |-> NoError, pos |-> ListPos(Len(vec.fs), n.idx)]

\* VectorFunction.__getitem__ with a slice.
getitem_slice(vec, lo, hi) ==
    LET n == norm_slice(vec, lo, hi)
    IN  IF n.err # NoError THEN [err |-> n.err, vec |-> NoVec]
        ELSE [err |-> NoError,
              vec |-> Vec(ListSlice(vec.fs, n.start, n.stop),
                          n.start + vec.start, vec.bnr)]

\* VectorFunction.__setitem__ with an int: the raw list position it writes.
setitem_idx(vec, i, e) ==
    IF ListPos(Len(vec.fs), i) = 0
    THEN [err |-> RangeError, vec |-> vec]
    ELSE [err |-> NoError,
          vec |-> [vec EXCEPT !.fs[ListPos(Len(vec.fs), i)] = e]]

\* VectorFunction.__setitem__ with a slice.
setitem_slice(vec, lo, hi, val) ==
    LET n == norm_slice(vec, lo, hi)
    IN  IF n.err # NoError THEN [err |-> n.err, vec |-> vec]
        ELSE [err |-> NoError,
              vec |-> [vec EXCEPT !.fs = ListSetSlice(vec.fs, n.start, n.stop, val)]]

\* VectorFunction.getifz
getifz(vec, i) == getitem_idx(vec, i + vec.start)

\* VectorFunction.append
append(vec, e) == [vec EXCEPT !.fs = Append(vec.fs, e)]

\* ext_bit with the sign extension forgotten: always zero-extend.
ext_bit_zero(vec) == [err |-> NoError, e |-> Bit(0)]

\* VectorFunction.ext, lines 470-473: the bit the vector is extended with.
ext_bit(vec) ==
    IF vec.bnr = TWOS_COMPLEMENT
    THEN (IF ListPos(Len(vec.fs), -1) = 0
          THEN [err |-> RangeError, e |-> Bit(0)]
          ELSE [err |-> NoError, e |-> vec.fs[ListPos(Len(vec.fs), -1)]])
    ELSE [err |-> NoError, e |-> Bit(0)]

\* VectorFunction.ext, lines 474-475: num calls of append.
RECURSIVE ext_loop(_, _, _)
ext_loop(vec, e, num) ==
    IF num <= 0 THEN vec ELSE ext_loop(append(vec, e), e, num - 1)

\* VectorFunction.ext
ext(vec, num) ==
    LET b == ext_bit(vec)
    IN  IF b.err # NoError THEN [err |-> b.err, vec |-> vec]
        ELSE [err |-> NoError, vec |-> ext_loop(vec, b.e, num)]

\* VectorFunction.to_uint: the loop from storage position i (1-based) on.
RECURSIVE to_uint_loop(_, _, _)
to_uint_loop(fs, i, num) ==
    IF i > Len(fs) THEN [err |-> NoError, num |-> num]
    ELSE IF fs[i].int
    THEN to_uint_loop(fs, i + 1,
                      IF fs[i].bit # 0 THEN num + 2 ^ (i - 1) ELSE num)
    ELSE [err |-> ConversionError, num |-> 0]

\* VectorFunction.to_uint
to_uint(vec) == to_uint_loop(vec.fs, 1, 0)

\* to_int with the weight of the sign bit, 2^(length-1), subtracted in place
\* of 2^length.
to_int_half(vec) ==
    LET u == to_uint(vec)
    IN  IF u.err # NoError THEN u
        ELSE IF vec.bnr = TWOS_COMPLEMENT
        THEN (IF ListPos(Len(vec.fs), -1) = 0
              THEN [err |-> RangeError, num |-> 0]
              ELSE IF vec.fs[ListPos(Len(vec.fs), -1)].bit # 0
              THEN [err |-> NoError, num |-> (0 - 2 ^ (Len(vec.fs) - 1)) + u.num]
              ELSE u)
        ELSE u

\* VectorFunction.to_int
to_int(vec) ==
    LET u == to_uint(vec)
    IN  IF u.err # NoError THEN u
        ELSE IF vec.bnr = TWOS_COMPLEMENT
        THEN (IF ListPos(Len(vec.fs), -1) = 0
              THEN [err |-> RangeError, num |-> 0]
              ELSE IF vec.fs[ListPos(Len(vec.fs), -1)].bit # 0
              THEN [err |-> NoError, num |-> (0 - 2 ^ Len(vec.fs)) + u.num]
              ELSE u)
        ELSE u

(* ------------------- a concrete Function: truth tables ----------------- *)

\* The point that agrees with mapping m on its keys and with p elsewhere.
PointUnder(p, m) ==
    CHOOSE q \in Points :
        \A x \in Vars :
            bit_on(q, x) = (IF x \in DOMAIN m THEN m[x] ELSE bit_on(p, x))

\* restrict of a truth-table Function: g = f | xi=b for every xi -> b of m.
table_restrict(tt, m) ==
    [p \in 1 .. (2 ^ NumVars) |-> tt[PointUnder(p - 1, m) + 1]]

\* The call element.restrict(mapping) on a vector element: a Python int has
\* no such method.
elem_restrict(e, m) ==
    IF e.int THEN [err |-> AttributeError, e |-> e]
    ELSE [err |-> NoError, e |-> Fn(table_restrict(e.tt, m))]

\* VectorFunction.restrict, lines 437-438: the loop from index i (0-based) on.
RECURSIVE restrict_loop(_, _, _)
restrict_loop(cpy, i, m) ==
    IF i >= Len(cpy.fs) THEN [err |-> NoError, vec |-> cpy]
    ELSE LET g == getitem_idx(cpy, i)
         IN  IF g.err # NoError THEN [err |-> g.err, vec |-> NoVec]
             ELSE LET r == elem_restrict(cpy.fs[g.pos], m)
                  IN  IF r.err # NoError THEN [err |-> r.err, vec |-> NoVec]
                      ELSE LET w == setitem_idx(cpy, i, r.e)
                           IN  IF w.err # NoError
                               THEN [err |-> w.err, vec |-> NoVec]
                               ELSE restrict_loop(w.vec, i + 1, m)

\* VectorFunction.restrict
restrict(vec, m) ==
    LET cpy == getitem_slice(vec, <<>>, <<>>)
    IN  IF cpy.err # NoError THEN [err |-> cpy.err, vec |-> NoVec]
        ELSE restrict_loop(cpy.vec, 0, m)

(* -------------------------------- Function ----------------------------- *)

Range(q) == {q[i] : i \in 1 .. Len(q)}

\* dict.__setitem__
DictSet(m, k, x) == [y \in DOMAIN m \cup {k} |-> IF y = k THEN x ELSE m[y]]

\* cofactor_mapping with vs[0] as the slowest-varying position.
cofactor_mapping_msb(vs, n) ==
    [x \in Range(vs) |->
        bit_on(n, Len(vs) - (CHOOSE i \in 1 .. Len(vs) :
                                 /\ vs[i] = x
                                 /\ \A j \in 1 .. Len(vs) : vs[j] = x => j <= i))]

\* Function.iter_cofactors, line 309: the dict comprehension
\* {v: bit_on(n, i) for i, v in enumerate(vs)}; a later i replaces an earlier
\* one with the same key.
cofactor_mapping(vs, n) ==
    [x \in Range(vs) |->
        bit_on(n, (CHOOSE i \in 1 .. Len(vs) :
                       /\ vs[i] = x
                       /\ \A j \in 1 .. Len(vs) : vs[j] = x => j <= i) - 1)]

\* Function.iter_cofactors, line 308: the mappings of the first k restrict
\* calls of the loop.
cofactor_calls(vs, k) == [n \in 1 .. k |-> cofactor_mapping(vs, n - 1)]

\* Function.iter_cofactors, lines 306-307
vs_or_empty(none, vs) == IF none THEN <<>> ELSE vs

\* Function.cofactors
cofactors(fn, none, vs) ==
    LET cs == cofactor_calls(vs_or_empty(none, vs), 2 ^ Len(vs_or_empty(none, vs)))
    IN  [err |-> NoError, calls |-> cs,
         val |-> [n \in 1 .. Len(cs) |-> table_restrict(fn, cs[n])]]

\* smoothing computed in the base class, as the OR of the cofactors.
smoothing_generic(fn, none, vs) ==
    LET c == cofactors(fn, none, vs)
    IN  [err |-> NoError, calls |-> c.calls,
         val |-> <<[p \in 1 .. (2 ^ NumVars) |->
                      IF \E n \in 1 .. Len(c.val) : c.val[n][p] = 1 THEN 1 ELSE 0]>>]

\* Function.smoothing
smoothing(fn, none, vs) == [err |-> NotImplementedError, calls |-> <<>>, val |-> <<>>]

\* Function.consensus
consensus(fn, none, vs) == [err |-> NotImplementedError, calls |-> <<>>, val |-> <<>>]

\* Function.derivative
derivative(fn, none, vs) == [err |-> NotImplementedError, calls |-> <<>>, val |-> <<>>]

\* _expand_vectors, lines 543-544: the loop over val from index i (0-based) on.
RECURSIVE expand_entry(_, _, _, _)
expand_entry(m, key, val, i) ==
    IF i >= Len(val) THEN [err |-> NoError, m |-> m]
    ELSE LET g == getifz(key, i)
         IN  IF g.err # NoError THEN [err |-> g.err, m |-> m]
             ELSE expand_entry(DictSet(m, key.fs[g.pos], val[i + 1]),
                               key, val, i + 1)

\* _expand_vectors, lines 539-546: the while loop; popitem takes the entry
\* inserted last.
RECURSIVE expand_loop(_, _)
expand_loop(m, temp) ==
    IF temp = <<>> THEN [err |-> NoError, m |-> m]
    ELSE LET ent == temp[Len(temp)]
         IN  IF Len(ent.key.fs) # Len(ent.val)
             THEN [err |-> AssertionError, m |-> m]
             ELSE LET r == expand_entry(m, ent.key, ent.val, 0)
                  IN  IF r.err # NoError THEN r
                      ELSE expand_loop(r.m, SubSeq(temp, 1, Len(temp) - 1))

\* _expand_vectors: scal holds the entries of mapping whose key is no
\* VectorFunction, vecs the (key, val) entries whose key is one.
expand_vectors(scal, vecs) == expand_loop(scal, vecs)

\* Function.vrestrict
vrestrict(fn, scal, vecs) ==
    LET e == expand_vectors(scal, vecs)
    IN  IF e.err # NoError THEN [err |-> e.err, calls |-> <<>>, val |-> <<>>]
        ELSE [err |-> NoError, calls |-> <<e.m>>,
              val |-> <<table_restrict(fn, e.m)>>]

(* --------------------- VectorFunction: the operations ------------------ *)

FnIdle == UNCHANGED <<f, gen, calls, fret>>

\* VectorFunction.__init__
InitVec(maxlen) ==
    /\ v \in {Vec(fs, s, b) : fs \in SeqsUpTo(Elems, maxlen), s \in Starts,
                              b \in {UNSIGNED, TWOS_COMPLEMENT}}
    /\ pre = v
    /\ op = "init"
    /\ arg = NoArg
    /\ err = NoError
    /\ ret = NoRet

\* v.bnr = value
SetBnr ==
    \E b \in {UNSIGNED, TWOS_COMPLEMENT} :
        /\ pre' = v
        /\ v' = [v EXCEPT !.bnr = b]
        /\ op' = "set_bnr"
        /\ arg' = [NoArg EXCEPT !.i = b]
        /\ err' = NoError
        /\ ret' = NoRet
        /\ FnIdle

\* v.append(e)
AppendElem ==
    \E e \in Elems :
        /\ Len(v.fs) < MaxLen
        /\ pre' = v
        /\ v' = append(v, e)
        /\ op' = "append"
        /\ arg' = [NoArg EXCEPT !.e = e]
        /\ err' = NoError
        /\ ret' = NoRet
        /\ FnIdle

\* v.ext(n)
Ext ==
    \E n \in 0 .. MaxExt :
        /\ Len(v.fs) + n <= MaxLen
        /\ pre' = v
        /\ v' = ext(v, n).vec
        /\ op' = "ext"
        /\ arg' = [NoArg EXCEPT !.i = n]
        /\ err' = ext(v, n).err
        /\ ret' = NoRet
        /\ FnIdle

\* v[i]
GetItem ==
    \E i \in Idx :
        LET r == getitem_idx(v, i)
        IN  /\ pre' = v
            /\ v' = v
            /\ op' = "getitem"
            /\ arg' = [NoArg EXCEPT !.i = i]
            /\ err' = r.err
            /\ ret' = IF r.err = NoError
                      THEN [NoRet EXCEPT !.pos = r.pos, !.elem = v.fs[r.pos]]
                      ELSE NoRet
            /\ FnIdle

\* v[lo:hi]
GetSlice ==
    \E lo \in Bounds, hi \in Bounds :
        LET r == getitem_slice(v, lo, hi)
        IN  /\ pre' = v
            /\ v' = v
            /\ op' = "getslice"
            /\ arg' = [NoArg EXCEPT !.lo = lo, !.hi = hi]
            /\ err' = r.err
            /\ ret' = [NoRet EXCEPT !.vec = r.vec]
            /\ FnIdle

\* s[lo:hi], where s is the sub-vector the last slice returned: the
\* sub-vector is the receiver from here on.  (Slice assignment can grow a
\* sub-vector, so its window is kept within the windows of InitVec.)
GetSliceOfSlice ==
    \E lo \in Bounds, hi \in Bounds :
        LET r == getitem_slice(ret.vec, lo, hi)
        IN  /\ op \in {"getslice", "getslice_of_slice"}
            /\ err = NoError
            /\ sl(ret.vec).stop <= MaxStart + MaxSliceLen
            /\ pre' = ret.vec
            /\ v' = ret.vec
            /\ op' = "getslice_of_slice"
            /\ arg' = [NoArg EXCEPT !.lo = lo, !.hi = hi]
            /\ err' = r.err
            /\ ret' = [NoRet EXCEPT !.vec = r.vec]
            /\ FnIdle

\* v[i] = e
SetItem ==
    \E i \in Idx, e \in Elems :
        LET r == setitem_idx(v, i, e)
        IN  /\ pre' = v
            /\ v' = r.vec
            /\ op' = "setitem"
            /\ arg' = [NoArg EXCEPT !.i = i, !.e = e]
            /\ err' = r.err
            /\ ret' = NoRet
            /\ FnIdle

\* v[lo:hi] = val
SetSlice ==
    \E lo \in Bounds, hi \in Bounds, val \in {<<>>, <<Bit(1), Fn(VarTable(0))>>} :
        LET r == setitem_slice(v, lo, hi, val)
        IN  /\ Len(r.vec.fs) <= MaxSliceLen
            /\ pre' = v
            /\ v' = r.vec
            /\ op' = "setslice"
            /\ arg' = [NoArg EXCEPT !.lo = lo, !.hi = hi]
            /\ err' = r.err
            /\ ret' = NoRet
            /\ FnIdle

\* v.restrict(m)
Restrict ==
    \E m \in Mappings :
        LET r == restrict(v, m)
        IN  /\ pre' = v
            /\ v' = v
            /\ op' = "restrict"
            /\ arg' = [NoArg EXCEPT !.m = m]
            /\ err' = r.err
            /\ ret' = [NoRet EXCEPT !.vec = r.vec]
            /\ FnIdle

\* v.to_uint()
ToUint ==
    /\ pre' = v
    /\ v' = v
    /\ op' = "to_uint"
    /\ arg' = NoArg
    /\ err' = to_uint(v).err
    /\ ret' = [NoRet EXCEPT !.num = to_uint(v).num]
    /\ FnIdle

\* v.to_int()
ToInt ==
    /\ pre' = v
    /\ v' = v
    /\ op' = "to_int"
    /\ arg' = NoArg
    /\ err' = to_int(v).err
    /\ ret' = [NoRet EXCEPT !.num = to_int(v).num]
    /\ FnIdle

FnInitIdle ==
    /\ f = [p \in 1 .. (2 ^ NumVars) |-> 0]
    /\ gen = NoGen
    /\ calls = <<>>
    /\ fret = <<>>

\* Numeric interpretation and growth of a vector.
NumInit == InitVec(MaxLen) /\ FnInitIdle

NumNext ==
    \/ SetBnr
    \/ AppendElem
    \/ Ext
    \/ ToUint
    \/ ToInt

NumSpec == NumInit /\ [][NumNext]_vars

\* Single-index access and the element-wise restrict built on it.
IdxInit == InitVec(MaxLen) /\ FnInitIdle

IdxNext ==
    \/ AppendElem
    \/ Ext
    \/ GetItem
    \/ SetItem
    \/ Restrict

IdxSpec == IdxInit /\ [][IdxNext]_vars

\* Slice reads, nested slice reads and slice assignment.
SliceInit == InitVec(MaxSliceLen) /\ FnInitIdle

SliceNext ==
    \/ GetSlice
    \/ GetSliceOfSlice
    \/ SetSlice

SliceSpec == SliceInit /\ [][SliceNext]_vars

(* ------------------------ Function: the operations --------------------- *)

VecIdle == UNCHANGED <<v, pre, ret>>

AndTable == [p \in 1 .. (2 ^ NumVars) |-> IF p = 2 ^ NumVars THEN 1 ELSE 0]

XorTable == [p \in 1 .. (2 ^ NumVars) |-> (bit_on(p - 1, 0) + bit_on(p - 1, 1)) % 2]

FnInputs == {VarTable(0), AndTable, XorTable}

VarLists == SeqsUpTo(Vars, MaxVs)

VsArgs == {[none |-> TRUE, vs |-> <<>>]} \cup {[none |-> FALSE, vs |-> q] : q \in VarLists}

VecIdleInit ==
    /\ v = NoVec
    /\ pre = NoVec
    /\ ret = NoRet

\* A concrete Function f.
FnInit ==
    /\ VecIdleInit
    /\ f \in FnInputs
    /\ gen = NoGen
    /\ calls = <<>>
    /\ fret = <<>>
    /\ op = "init"
    /\ arg = NoArg
    /\ err = NoError

\* g = f.iter_cofactors(vs): the generator object; its body has not run yet.
IterCofactors ==
    \E a \in VsArgs :
        /\ gen' = [vs |-> vs_or_empty(a.none, a.vs), n |-> 0, live |-> TRUE]
        /\ calls' = <<>>
        /\ fret' = <<>>
        /\ op' = "iter_cofactors"
        /\ arg' = [NoArg EXCEPT !.none = a.none, !.vs = a.vs]
        /\ err' = NoError
        /\ UNCHANGED f
        /\ VecIdle

\* next(g): one round of the loop of iter_cofactors, or its end.
GenNext ==
    /\ gen.live
    /\ op' = "next"
    /\ IF gen.n < 2 ^ Len(gen.vs)
       THEN /\ calls' = Append(calls, cofactor_mapping(gen.vs, gen.n))
            /\ fret' = Append(fret, table_restrict(f, cofactor_mapping(gen.vs, gen.n)))
            /\ gen' = [gen EXCEPT !.n = gen.n + 1]
            /\ err' = NoError
       ELSE /\ gen' = [gen EXCEPT !.live = FALSE]
            /\ err' = "StopIteration"
            /\ UNCHANGED <<calls, fret>>
    /\ UNCHANGED <<f, arg>>
    /\ VecIdle

FnCall(name, a, r) ==
    /\ gen' = NoGen
    /\ calls' = r.calls
    /\ fret' = r.val
    /\ op' = name
    /\ arg' = [NoArg EXCEPT !.none = a.none, !.vs = a.vs]
    /\ err' = r.err
    /\ UNCHANGED f
    /\ VecIdle

\* f.cofactors(vs)
Cofactors == \E a \in VsArgs : FnCall("cofactors", a, cofactors(f, a.none, a.vs))

\* f.smoothing(vs)
Smoothing == \E a \in VsArgs : FnCall("smoothing", a, smoothing(f, a.none, a.vs))

\* f.consensus(vs)
Consensus == \E a \in VsArgs : FnCall("consensus", a, consensus(f, a.none, a.vs))

\* f.derivative(vs)
Derivative == \E a \in VsArgs : FnCall("derivative", a, derivative(f, a.none, a.vs))

FnNext ==
    \/ IterCofactors
    \/ GenNext
    \/ Cofactors
    \/ Smoothing
    \/ Consensus
    \/ Derivative

FnSpec == FnInit /\ [][FnNext]_vars

\* The vector keys of a mapping: VectorFunctions of variables.
KeyVecs == {Vec(fs, s, UNSIGNED) : fs \in SeqsUpTo(Vars, MaxKeyLen), s \in Starts}

VecEntries == {[key |-> k, val |-> x] : k \in KeyVecs, x \in SeqsUpTo({0, 1}, MaxKeyLen)}

\* A concrete Function f and a mapping with at most one VectorFunction key.
VrInit ==
    /\ VecIdleInit
    /\ f \in FnInputs
    /\ gen = NoGen
    /\ calls = <<>>
    /\ fret = <<>>
    /\ op = "init"
    /\ \E m \in Mappings, vecs \in {<<>>} \cup {<<x>> : x \in VecEntries} :
           arg = [NoArg EXCEPT !.m = m, !.vecs = vecs]
    /\ err = NoError

\* f.vrestrict(mapping)
VRestrict ==
    LET r == vrestrict(f, arg.m, arg.vecs)
    IN  /\ calls' = r.calls
        /\ fret' = r.val
        /\ op' = "vrestrict"
        /\ err' = r.err
        /\ UNCHANGED <<f, arg, gen>>
        /\ VecIdle

VrNext == VRestrict

VrSpec == VrInit /\ [][VrNext]_vars

(* ------------------------------- properties ---------------------------- *)

AllFn(fs) == \A p \in 1 .. Len(fs) : ~fs[p].int

AllBits(fs) == \A p \in 1 .. Len(fs) : fs[p].int /\ fs[p].bit \in {0, 1}

InWindow(vec, i) == vec.start <= i /\ i < vec.start + Len(vec.fs)

Distinct(q) == \A i, j \in 1 .. Len(q) : q[i] = q[j] => i = j

\* C1: v.restrict(m) on a vector of Functions (length >= 1, any start, any
\* bnr) returns a vector of the same length, start and bnr whose element at
\* every storage position is v's element there with restrict(m) applied, and
\* leaves v as it was.
C1_RestrictElementwise ==
    (op = "restrict" /\ Len(pre.fs) >= 1 /\ AllFn(pre.fs)) =>
        /\ err = NoError
        /\ ret.vec.start = pre.start
        /\ ret.vec.bnr = pre.bnr
        /\ Len(ret.vec.fs) = Len(pre.fs)
        /\ \A p \in 1 .. Len(pre.fs) :
               ret.vec.fs[p] = Fn(table_restrict(pre.fs[p].tt, arg.m))
        /\ v = pre

\* The flat mapping written by hand: the scalar entries, then one entry
\* (element at storage position i of key) -> val[i] for i = 0 .. len(key)-1.
RECURSIVE HandFlattened(_, _, _, _)
HandFlattened(m, key, val, i) ==
    IF i > Len(key.fs) THEN m
    ELSE HandFlattened(DictSet(m, key.fs[i], val[i]), key, val, i + 1)

\* C2: for a mapping with a VectorFunction key K (any start) and a value
\* sequence of the same length, vrestrict calls restrict exactly once, with
\* the mapping flattened by hand, and returns what that call returns.
C2_VRestrictIsFlatRestrict ==
    (op = "vrestrict" /\ arg.vecs # <<>>
        /\ Len(arg.vecs[1].key.fs) = Len(arg.vecs[1].val)) =>
        /\ err = NoError
        /\ calls = <<HandFlattened(arg.m, arg.vecs[1].key, arg.vecs[1].val, 1)>>
        /\ fret = <<table_restrict(f, calls[1])>>

C4_SliceErrors ==
    (op \in {"getslice", "getslice_of_slice", "setslice"}) =>
        LET lower == slice_limit(pre, arg.lo, pre.start)
            upper == slice_limit(pre, arg.hi, pre.start + Len(pre.fs))
            inside(x) == pre.start <= x /\ x <= pre.start + Len(pre.fs)
        IN  /\ (~inside(lower) \/ ~inside(upper)) => err = RangeError
            /\ err = ZeroSizedSlice =>
                   inside(lower) /\ inside(upper) /\ lower >= upper
            /\ err # NoError => v = pre

\* C5: v[i] and v[i] = e touch the element at storage position i - start
\* when i is in the window, and otherwise fail with the range error and leave
\* the vector as it was.
C5_IndexInWindow ==
    (op \in {"getitem", "setitem"}) =>
        IF InWindow(pre, arg.i)
        THEN /\ err = NoError
             /\ op = "getitem" => ret.pos = arg.i - pre.start + 1 /\ v = pre
             /\ op = "setitem" =>
                    v = [pre EXCEPT !.fs[arg.i - pre.start + 1] = arg.e]
        ELSE err = RangeError /\ v = pre

\* The sum of 2^p over the storage positions p (0-based) from i-1 on that
\* hold 1.
RECURSIVE BitSum(_, _)
BitSum(fs, i) ==
    IF i > Len(fs) THEN 0
    ELSE (IF fs[i].bit = 1 THEN 2 ^ (i - 1) ELSE 0) + BitSum(fs, i + 1)

\* The two's-complement or unsigned value of a vector of bits.
Decoded(vec) ==
    IF vec.bnr = TWOS_COMPLEMENT /\ Len(vec.fs) > 0 /\ vec.fs[Len(vec.fs)].bit = 1
    THEN BitSum(vec.fs, 1) - 2 ^ Len(vec.fs)
    ELSE BitSum(vec.fs, 1)

\* C6: to_int on a vector of bits 0/1 (any length, 0 included) never fails
\* and returns the unsigned sum U, or U - 2^length when bnr is
\* TWOS_COMPLEMENT and the last element is 1.
C6_ToIntDecodes ==
    (op = "to_int" /\ AllBits(pre.fs)) =>
        /\ err = NoError
        /\ ret.num = Decoded(pre)

\* What ext(n) and append leave behind, as C7 states it.
ExtEffect ==
    /\ Len(v.fs) = Len(pre.fs) + arg.i
    /\ SubSeq(v.fs, 1, Len(pre.fs)) = pre.fs
    /\ v.start = pre.start
    /\ v.bnr = pre.bnr
    /\ \A p \in (Len(pre.fs) + 1) .. Len(v.fs) :
           v.fs[p] = (IF pre.bnr = TWOS_COMPLEMENT THEN pre.fs[Len(pre.fs)]
                      ELSE Bit(0))

AppendKeepsStart == op = "append" => v.start = pre.start /\ v.bnr = pre.bnr

\* C7 as stated: for every vector and every n >= 0, ext(n) adds exactly n
\* copies of the extension bit and changes nothing else; ext and append keep
\* start.
C7_ExtExtends == (op = "ext" => ExtEffect) /\ AppendKeepsStart

\* C7 as amended: the same for every vector that is non-empty or not
\* TWOS_COMPLEMENT; on an empty TWOS_COMPLEMENT vector ext(n) fails with
\* IndexError and leaves the vector as it was.
C7_ExtExtendsNonEmpty ==
    /\ op = "ext" =>
           IF pre.bnr = TWOS_COMPLEMENT /\ Len(pre.fs) = 0
           THEN err = RangeError /\ v = pre
           ELSE err = NoError /\ ExtEffect
    /\ AppendKeepsStart

\* C7: a sign extension by two bits has happened.
C7_Witness ==
    /\ op = "ext"
    /\ arg.i = 2
    /\ pre.bnr = TWOS_COMPLEMENT
    /\ Len(pre.fs) >= 1
    /\ pre.fs[Len(pre.fs)] = Bit(1)
    /\ Len(v.fs) = Len(pre.fs) + 2

\* C10: on a non-empty vector of bits, ext(n) leaves to_int as it was, for
\* either bnr; hence so does any sequence of ext calls.
C10_ExtPreservesToInt ==
    (op = "ext" /\ err = NoError /\ Len(pre.fs) >= 1 /\ AllBits(pre.fs)) =>
        /\ to_int(v).err = NoError
        /\ to_int(pre).err = NoError
        /\ to_int(v).num = to_int(pre).num

\* C10: a negative two's-complement number has been sign-extended.
C10_Witness ==
    /\ op = "ext"
    /\ err = NoError
    /\ arg.i >= 1
    /\ AllBits(pre.fs)
    /\ Len(pre.fs) >= 1
    /\ pre.bnr = TWOS_COMPLEMENT
    /\ to_int(pre).num < 0

\* Mapping m assigns to each vs[i] bit i of n (i 0-based), and to nothing
\* else.
IsAssignment(m, vs, n) ==
    /\ DOMAIN m = Range(vs)
    /\ \A i \in 1 .. Len(vs) : m[vs[i]] = (n \div 2 ^ (i - 1)) % 2

\* The restrict calls made so far are calls 0, 1, ... in order, and the
\* values yielded are their results.
CallsInOrder(vs) ==
    /\ Len(fret) = Len(calls)
    /\ \A n \in 1 .. Len(calls) :
           /\ IsAssignment(calls[n], vs, n - 1)
           /\ fret[n] = table_restrict(f, calls[n])

CofactorOrder(vs) ==
    /\ op \in {"iter_cofactors", "next"} =>
           /\ Len(calls) = gen.n
           /\ gen.n <= 2 ^ Len(vs)
           /\ CallsInOrder(vs)
    /\ (op = "next" /\ err = "StopIteration") => Len(calls) = 2 ^ Len(vs)
    /\ op = "cofactors" =>
           /\ err = NoError
           /\ Len(calls) = 2 ^ Len(vs)
           /\ CallsInOrder(vs)

\* C8 as stated: for every variable list vs of length k (None counts as
\* empty), iter_cofactors makes exactly 2^k restrict calls, call n with the
\* mapping vs[i] -> bit i of n, in the order n = 0 .. 2^k - 1; cofactors(vs)
\* is the same sequence.
C8_CofactorOrder == CofactorOrder(vs_or_empty(arg.none, arg.vs))

\* C8 as amended: the same for every list vs of pairwise distinct variables.
C8_CofactorOrderDistinct ==
    Distinct(arg.vs) => CofactorOrder(vs_or_empty(arg.none, arg.vs))

\* C8: a generator over two distinct variables has been run to its end.
C8_Witness ==
    /\ op = "next"
    /\ err = "StopIteration"
    /\ Len(arg.vs) = 2
    /\ Distinct(arg.vs)
    /\ Len(calls) = 4
    /\ calls[2] = [x \in Range(arg.vs) |-> IF x = arg.vs[1] THEN 1 ELSE 0]

\* The OR, AND and XOR-parity of a sequence of truth tables.
TableOr(ts) ==
    [p \in 1 .. (2 ^ NumVars) |-> IF \E n \in 1 .. Len(ts) : ts[n][p] = 1 THEN 1 ELSE 0]

TableAnd(ts) ==
    [p \in 1 .. (2 ^ NumVars) |-> IF \A n \in 1 .. Len(ts) : ts[n][p] = 1 THEN 1 ELSE 0]

TableXor(ts) ==
    [p \in 1 .. (2 ^ NumVars) |-> Cardinality({n \in 1 .. Len(ts) : ts[n][p] = 1}) % 2]

====
